---- MODULE Spec2Model ----
(***************************************************************************)
(* LSBSteg.py: hiding a file in the least significant bits of an RGB       *)
(* image and recovering it.  The model follows one Python process that     *)
(* calls hide_data, recover_data and analysis in any order, with the       *)
(* module globals (image, input_file, steg_image, output_file, buffer,     *)
(* buffer_length) surviving from one call to the next, and the four files  *)
(* the module's paths name.                                                *)
(*                                                                         *)
(* Python's int is unbounded; `buffer` is therefore kept as its binary     *)
(* digits, least significant first, without leading zeros (0 is <<>>).     *)
(* Channel values, sizes and counters are small and kept as integers.      *)
(*                                                                         *)
(* An exception that leaves a call (FileNotFoundError of os.stat,          *)
(* NameError of an unbound global, IndexError of getpixel outside the      *)
(* image, ValueError of a write on a closed file) ends the call and is     *)
(* recorded in err; the globals keep what the call had assigned so far.    *)
(***************************************************************************)
EXTENDS Integers, Sequences, FiniteSets, TLC

\* ------------------------------------------------------------------ bounds
MaxWidth == 2
MaxHeight == 2
MaxLen == 4
MaxCalls == 2
MaxRemovals == 1

\* The images tried: one of each size, with channels 255, 84, 169, 254, 83, ...
PixelAt(c) == (170 + 85 * c) % 256

\* The payloads tried: one of each length, with bytes 90, 165, 240, 59, ...
PayloadByte(j) == (90 + 75 * (j - 1)) % 256

\* ------------------------------------------------------- integer helpers
RECURSIVE Pow2(_)
Pow2(n) == IF n <= 0 THEN 1 ELSE 2 * Pow2(n - 1)

\* a & b and a | b on non-negative integers, bit by bit.
RECURSIVE BitAnd(_, _)
BitAnd(a, b) ==
    IF a = 0 \/ b = 0 THEN 0
    ELSE (IF a % 2 = 1 /\ b % 2 = 1 THEN 1 ELSE 0) + 2 * BitAnd(a \div 2, b \div 2)

RECURSIVE BitOr(_, _)
BitOr(a, b) ==
    IF a = 0 THEN b
    ELSE IF b = 0 THEN a
    ELSE (IF a % 2 = 1 \/ b % 2 = 1 THEN 1 ELSE 0) + 2 * BitOr(a \div 2, b \div 2)

\* int.bit_length(): the number of binary digits of n.
RECURSIVE BitLength(_)
BitLength(n) == IF n = 0 THEN 0 ELSE 1 + BitLength(n \div 2)

\* math.ceil(a / b) for positive b.
CeilDiv(a, b) == (a + b - 1) \div b

\* ------------------------------------------- unbounded integers as digits
RECURSIVE ToBits(_)
ToBits(n) == IF n = 0 THEN <<>> ELSE <<n % 2>> \o ToBits(n \div 2)

RECURSIVE BitsValue(_)
BitsValue(b) == IF b = <<>> THEN 0 ELSE Head(b) + 2 * BitsValue(Tail(b))

Zeros(n) == [j \in 1..n |-> 0]

\* v << n
ShiftLeft(b, n) == IF b = <<>> THEN <<>> ELSE Zeros(n) \o b

\* v >> n
ShiftRight(b, n) == IF Len(b) <= n THEN <<>> ELSE SubSeq(b, n + 1, Len(b))

\* v % (1 << n), as an integer (n is at most the width of the size header)
LowBits(b, n) == BitsValue(SubSeq(b, 1, IF Len(b) < n THEN Len(b) ELSE n))

\* a + b with carry c
RECURSIVE AddCarry(_, _, _)
AddCarry(a, b, c) ==
    IF a = <<>> /\ b = <<>> THEN (IF c = 1 THEN <<1>> ELSE <<>>)
    ELSE LET da == IF a = <<>> THEN 0 ELSE Head(a)
             db == IF b = <<>> THEN 0 ELSE Head(b)
             s  == da + db + c
         IN  <<s % 2>> \o AddCarry(IF a = <<>> THEN a ELSE Tail(a),
                                   IF b = <<>> THEN b ELSE Tail(b), s \div 2)

BigAdd(a, b) == AddCarry(a, b, 0)

\* ------------------------------------------------------------------ images
\* A PIL image: size = (width, height) and the channels in row-major R,G,B
\* order.  NoImage stands for an unbound name or an absent file.
NoImage == [size |-> <<0, 0>>, px |-> <<>>]

Img(w, h) == [size |-> <<w, h>>, px |-> [c \in 1..(3 * w * h) |-> PixelAt(c)]]

InImage(img, px, py) ==
    /\ 0 <= px /\ px < img.size[1]
    /\ 0 <= py /\ py < img.size[2]

ChannelIndex(img, px, py, c) == 3 * (py * img.size[1] + px) + c + 1

GetPixel(img, px, py) == [c \in 0..2 |-> img.px[ChannelIndex(img, px, py, c)]]

PutPixel(img, px, py, val) ==
    [img EXCEPT !.px = [j \in 1..Len(img.px) |->
        IF \E c \in 0..2 : j = ChannelIndex(img, px, py, c)
        THEN val[j - ChannelIndex(img, px, py, 0)]
        ELSE img.px[j]]]

\* ------------------------------------------------------------------- files
NoFile == [exists |-> FALSE, data |-> <<>>]
File(d) == [exists |-> TRUE, data |-> d]

NoHandle == [bound |-> FALSE, data |-> <<>>, pos |-> 0]
\* output_file: writes stay in the file object (pending) until it is closed
\* or finalised; the payloads here never fill its buffer.
NoOutput == [bound |-> FALSE, open |-> FALSE, pending |-> <<>>]

\* A file object flushes: its pending bytes go over the file from offset 0.
Flush(pending, file) ==
    pending \o (IF Len(file) > Len(pending)
                THEN SubSeq(file, Len(pending) + 1, Len(file)) ELSE <<>>)

Images == {Img(w, h) : w \in 1..MaxWidth, h \in 1..MaxHeight}
Payloads == {[j \in 1..n |-> PayloadByte(j)] : n \in 0..MaxLen}


\* The image that lies at steg_image_path when the process starts.
InitialSteg == Img(1, 1)

\* ------------------------------------------------------------------- state
VARIABLES
    num_lsb,            \* module constant of the run (line 36)
    input_image_disk,   \* file at input_image_path (NoImage: absent)
    input_file_disk,    \* file at input_file_path
    steg_image_disk,    \* file at steg_image_path (NoImage: absent)
    output_file_disk,   \* bytes of the file at output_file_path
    image,              \* global image (NoImage: name unbound)
    input_file,         \* global input_file: open handle and read position
    steg_image,         \* global steg_image
    output_file,        \* global output_file handle
    buffer,             \* global buffer, as binary digits
    buffer_length,      \* global buffer_length
    pc,                 \* where the running call stands ("idle": none runs)
    x, y,               \* position of the current pixel
    i,                  \* channel index of hide_data's inner for loop
    rgb,                \* hide_data's list of the current pixel's channels
    k,                  \* header pixels read so far by recover_data
    pixels_used_for_filesize,
    bytes_to_recover,
    err,                \* exception that ended the last call ("none")
    ncalls,             \* calls made so far
    nremoved,           \* files deleted so far
    snap,               \* what the running (or last) call found when it began
    prev,               \* the call before it, and how it ended
    eof_seen,           \* read_byte_to_buffer met end of file in this run
    eof_i,              \* channel index at which it first did
    coords,             \* pixels recover_data asked getpixel for, in order
    saved               \* image.save was called in this run

vars == <<num_lsb, input_image_disk, input_file_disk, steg_image_disk,
          output_file_disk, image, input_file, steg_image, output_file,
          buffer, buffer_length, pc, x, y, i, rgb, k,
          pixels_used_for_filesize, bytes_to_recover, err, ncalls, nremoved,
          snap, prev, eof_seen, eof_i, coords, saved>>

disk == <<input_image_disk, input_file_disk, steg_image_disk, output_file_disk>>
run_locals == <<x, y, i, rgb, k, pixels_used_for_filesize, bytes_to_recover>>
hide_ghost == <<eof_seen, eof_i, saved>>
history == <<ncalls, nremoved, snap, prev>>

NoRgb == [c \in 0..2 |-> 0]

NoCall == [op |-> "none", missing |-> FALSE, img |-> NoImage,
           steg0 |-> NoImage, out0 |-> <<>>, payload |-> <<>>, hb |-> 0]

\* ------------------------------------------------- the module's functions
\* and_mask(index, n), line 68: 255 - ((1 << n) - 1 << index)
and_mask_lowbit(index, n) == 255 - (Pow2(n) * Pow2(index))

and_mask(index, n) == 255 - ((Pow2(n) - 1) * Pow2(index))

\* max_bits_to_hide(), lines 78-81, given the globals image and steg_image
\* (neither bound: NameError, see MaxBitsNameError).
max_bits_to_hide_nochannels(img, simg) ==
    IF img # NoImage THEN img.size[1] * img.size[2] * num_lsb
    ELSE simg.size[1] * simg.size[2] * num_lsb

max_bits_to_hide(img, simg) ==
    IF img # NoImage THEN 3 * img.size[1] * img.size[2] * num_lsb
    ELSE 3 * simg.size[1] * simg.size[2] * num_lsb

MaxBitsNameError(img, simg) == img = NoImage /\ simg = NoImage

\* bits_in_max_filesize(), line 85
bits_in_max_filesize(img, simg) == BitLength(max_bits_to_hide(img, simg))

\* read_byte_to_buffer(), lines 92-98, on handle f
read_byte_to_buffer_keep(b, l, f) ==
    IF f.pos < Len(f.data)
    THEN [buffer |-> BigAdd(b, ShiftLeft(ToBits(f.data[f.pos + 1]), l)),
          buffer_length |-> l + 8,
          input_file |-> [f EXCEPT !.pos = @ + 1]]
    ELSE [buffer |-> b, buffer_length |-> 0, input_file |-> f]

read_byte_to_buffer(b, l, f) ==
    IF f.pos < Len(f.data)
    THEN [buffer |-> BigAdd(b, ShiftLeft(ToBits(f.data[f.pos + 1]), l)),
          buffer_length |-> l + 8,
          input_file |-> [f EXCEPT !.pos = @ + 1]]
    ELSE [buffer |-> <<>>, buffer_length |-> -1, input_file |-> f]

\* read_bits_from_buffer(n), lines 104-107
read_bits_from_buffer(b, l, n) ==
    [bits |-> LowBits(b, n), buffer |-> ShiftRight(b, n), buffer_length |-> l - n]

\* One pass of the channel loops of recover_data (lines 163-167, 180-184):
\* the num_lsb low bits of the three channels are added above the buffer.
RECURSIVE AddChannels(_, _, _, _)
AddChannels(b, l, val, c) ==
    IF c > 2 THEN [buffer |-> b, buffer_length |-> l]
    ELSE AddChannels(BigAdd(b, ShiftLeft(ToBits(val[c] % Pow2(num_lsb)), l)),
                     l + num_lsb, val, c + 1)

\* prepare_hide(), lines 42-46: Image.open raises before open() is reached.
PrepareHideImage == IF input_image_disk # NoImage THEN input_image_disk ELSE image

PrepareHideFile ==
    IF input_image_disk # NoImage /\ input_file_disk.exists
    THEN [bound |-> TRUE, data |-> input_file_disk.data, pos |-> 0]
    ELSE input_file

\* -------------------------------------------------------------------- Init
Init ==
    /\ num_lsb \in 1..8
    /\ input_image_disk \in Images
    /\ input_file_disk \in {File(p) : p \in Payloads}
    /\ steg_image_disk = InitialSteg
    /\ output_file_disk = <<>>
    /\ image = NoImage
    /\ input_file = NoHandle
    /\ steg_image = NoImage
    /\ output_file = NoOutput
    /\ buffer = <<>>
    /\ buffer_length = 0
    /\ pc = "idle"
    /\ x = 0 /\ y = 0 /\ i = 0 /\ rgb = NoRgb /\ k = 0
    /\ pixels_used_for_filesize = 0
    /\ bytes_to_recover = 0
    /\ err = "none"
    /\ ncalls = 0
    /\ nremoved = 0
    /\ snap = NoCall
    /\ prev = [call |-> NoCall, err |-> "none"]
    /\ eof_seen = FALSE
    /\ eof_i = 0
    /\ coords = <<>>
    /\ saved = FALSE

\* A call returns or raises: its locals are gone.
Return(e) ==
    /\ pc' = "idle"
    /\ err' = e
    /\ x' = 0 /\ y' = 0 /\ i' = 0 /\ rgb' = NoRgb /\ k' = 0
    /\ pixels_used_for_filesize' = 0
    /\ bytes_to_recover' = 0

BeginCall(c) ==
    /\ pc = "idle"
    /\ ncalls < MaxCalls
    /\ ncalls' = ncalls + 1
    /\ nremoved' = nremoved
    /\ prev' = [call |-> snap, err |-> err]
    /\ snap' = c
    /\ eof_seen' = FALSE
    /\ eof_i' = 0
    /\ coords' = <<>>
    /\ saved' = FALSE

\* ------------------------------------------------------------- environment
\* Between two calls the user deletes one of the files the paths name.
Removal ==
    /\ pc = "idle"
    /\ ncalls < MaxCalls
    /\ nremoved < MaxRemovals
    /\ nremoved' = nremoved + 1
    /\ UNCHANGED <<num_lsb, output_file_disk, image, input_file, steg_image,
                   output_file, buffer, buffer_length, pc, run_locals, err,
                   ncalls, snap, prev, hide_ghost, coords>>

RemoveInputImage ==
    /\ Removal
    /\ input_image_disk # NoImage
    /\ input_image_disk' = NoImage
    /\ UNCHANGED <<input_file_disk, steg_image_disk>>

RemoveInputFile ==
    /\ Removal
    /\ input_file_disk.exists
    /\ input_file_disk' = NoFile
    /\ UNCHANGED <<input_image_disk, steg_image_disk>>

RemoveStegImage ==
    /\ Removal
    /\ steg_image_disk # NoImage
    /\ steg_image_disk' = NoImage
    /\ UNCHANGED <<input_image_disk, input_file_disk>>

\* --------------------------------------------------------------- hide_data
\* Lines 113-125: prepare_hide, reset_buffer, the file size as the header.
HideStart ==
    /\ BeginCall([op |-> "hide",
                  missing |-> (input_image_disk = NoImage \/ ~input_file_disk.exists),
                  img |-> PrepareHideImage,
                  steg0 |-> steg_image_disk,
                  out0 |-> output_file_disk,
                  payload |-> input_file_disk.data,
                  hb |-> IF MaxBitsNameError(PrepareHideImage, steg_image) THEN 0
                         ELSE bits_in_max_filesize(PrepareHideImage, steg_image)])
    /\ image' = PrepareHideImage
    /\ input_file' = PrepareHideFile
    /\ IF ~input_file_disk.exists
       THEN \* get_filesize: os.stat raises (line 122)
            /\ buffer' = <<>> /\ buffer_length' = 0
            /\ Return("FileNotFoundError")
       ELSE IF MaxBitsNameError(image', steg_image)
       THEN \* bits_in_max_filesize: no image is bound (line 123)
            /\ buffer' = ToBits(Len(input_file_disk.data)) /\ buffer_length' = 0
            /\ Return("NameError")
       ELSE /\ buffer' = ToBits(Len(input_file_disk.data))
            /\ buffer_length' = bits_in_max_filesize(image', steg_image)
            /\ pc' = "hide_while"
            /\ err' = "none"
            /\ x' = 0 /\ y' = 0
            /\ UNCHANGED <<i, rgb, k, pixels_used_for_filesize, bytes_to_recover>>
    /\ UNCHANGED <<num_lsb, disk, steg_image, output_file>>

\* Line 127 when image is unbound (the header width came from steg_image).
HideNameError ==
    /\ pc = "hide_while"
    /\ buffer_length # -1
    /\ image = NoImage
    /\ Return("NameError")
    /\ UNCHANGED <<num_lsb, disk, image, input_file, steg_image, output_file,
                   buffer, buffer_length, history, hide_ghost, coords>>

\* Lines 127-128: the loop test holds, the next pixel is fetched.
HideGetPixel ==
    /\ pc = "hide_while"
    /\ image # NoImage
    /\ buffer_length # -1 /\ y < image.size[2]
    /\ rgb' = GetPixel(image, x, y)
    /\ i' = 0
    /\ pc' = "hide_chan"
    /\ UNCHANGED <<num_lsb, disk, image, input_file, steg_image, output_file,
                   buffer, buffer_length, x, y, k, pixels_used_for_filesize,
                   bytes_to_recover, err, history, hide_ghost, coords>>

\* Lines 130-137: one pass of `for i in range(3)`.
HideChannel ==
    /\ pc = "hide_chan"
    /\ IF buffer_length < num_lsb /\ ~input_file.bound
       THEN \* input_file.read on an unbound name
            /\ Return("NameError")
            /\ UNCHANGED <<input_file, buffer, buffer_length, hide_ghost>>
       ELSE LET fill == IF buffer_length < num_lsb
                        THEN read_byte_to_buffer(buffer, buffer_length, input_file)
                        ELSE [buffer |-> buffer, buffer_length |-> buffer_length,
                              input_file |-> input_file]
                hit  == buffer_length < num_lsb /\ input_file.pos >= Len(input_file.data)
                pop  == read_bits_from_buffer(fill.buffer, fill.buffer_length, num_lsb)
            IN  /\ input_file' = fill.input_file
                /\ eof_seen' = (eof_seen \/ hit)
                /\ eof_i' = IF ~eof_seen /\ hit THEN i ELSE eof_i
                /\ IF fill.buffer_length # -1
                   THEN /\ rgb' = [rgb EXCEPT ![i] =
                                     BitOr(BitAnd(@, and_mask(0, num_lsb)), pop.bits)]
                        /\ buffer' = pop.buffer
                        /\ buffer_length' = pop.buffer_length
                   ELSE /\ rgb' = rgb
                        /\ buffer' = fill.buffer
                        /\ buffer_length' = fill.buffer_length
                /\ i' = i + 1
                /\ pc' = IF i = 2 THEN "hide_put" ELSE "hide_chan"
                /\ UNCHANGED <<x, y, k, pixels_used_for_filesize, bytes_to_recover,
                               err, saved>>
    /\ UNCHANGED <<num_lsb, disk, image, steg_image, output_file, history, coords>>

\* Lines 139-144: putpixel and the step to the next pixel.
HidePutPixel ==
    /\ pc = "hide_put"
    /\ image' = PutPixel(image, x, y, rgb)
    /\ IF x + 1 >= image.size[1]
       THEN x' = 0 /\ y' = y + 1
       ELSE x' = x + 1 /\ y' = y
    /\ pc' = "hide_while"
    /\ UNCHANGED <<num_lsb, disk, input_file, steg_image, output_file, buffer,
                   buffer_length, i, rgb, k, pixels_used_for_filesize,
                   bytes_to_recover, err, history, hide_ghost, coords>>

\* Lines 127, 145: the loop test fails, the image is saved.
HideSave ==
    /\ pc = "hide_while"
    /\ image # NoImage
    /\ ~(buffer_length # -1 /\ y < image.size[2])
    /\ steg_image_disk' = image
    /\ saved' = TRUE
    /\ Return("none")
    /\ UNCHANGED <<num_lsb, input_image_disk, input_file_disk, output_file_disk,
                   image, input_file, steg_image, output_file, buffer,
                   buffer_length, history, eof_seen, eof_i, coords>>

\* ---------------------------------------------------------------- analysis
\* Lines 205-209: prepare_hide and the four prints.
Analysis ==
    /\ BeginCall([op |-> "analysis",
                  missing |-> (input_image_disk = NoImage \/ ~input_file_disk.exists),
                  img |-> PrepareHideImage,
                  steg0 |-> steg_image_disk,
                  out0 |-> output_file_disk,
                  payload |-> input_file_disk.data,
                  hb |-> IF PrepareHideImage = NoImage THEN 0
                         ELSE bits_in_max_filesize(PrepareHideImage, steg_image)])
    /\ image' = PrepareHideImage
    /\ input_file' = PrepareHideFile
    /\ Return(IF image' = NoImage THEN "NameError"
              ELSE IF ~input_file_disk.exists THEN "FileNotFoundError"
              ELSE "none")
    /\ UNCHANGED <<num_lsb, disk, steg_image, output_file, buffer, buffer_length>>

\* ------------------------------------------------------------ recover_data
\* prepare_recover(), lines 52-56: open(..., "wb+") empties the output file;
\* binding output_file anew then finalises the file object it was bound to,
\* which, when still open, flushes its pending bytes into the emptied file.
PrepareRecoverImage == IF steg_image_disk # NoImage THEN steg_image_disk ELSE steg_image

\* Lines 153-160.
RecoverStart ==
    /\ BeginCall([op |-> "recover",
                  missing |-> (steg_image_disk = NoImage),
                  img |-> image,
                  steg0 |-> steg_image_disk,
                  out0 |-> output_file_disk,
                  payload |-> <<>>,
                  hb |-> IF MaxBitsNameError(image, PrepareRecoverImage) THEN 0
                         ELSE bits_in_max_filesize(image, PrepareRecoverImage)])
    /\ steg_image' = PrepareRecoverImage
    /\ IF steg_image_disk # NoImage
       THEN /\ output_file' = [bound |-> TRUE, open |-> TRUE, pending |-> <<>>]
            /\ output_file_disk' = IF output_file.bound /\ output_file.open
                                   THEN Flush(output_file.pending, <<>>)
                                   ELSE <<>>
       ELSE UNCHANGED <<output_file, output_file_disk>>
    /\ buffer' = <<>>
    /\ buffer_length' = 0
    /\ IF MaxBitsNameError(image, steg_image')
       THEN Return("NameError")
       ELSE /\ pixels_used_for_filesize' =
                   CeilDiv(bits_in_max_filesize(image, steg_image'), 3 * num_lsb)
            /\ x' = 0 /\ y' = 0 /\ k' = 0
            /\ pc' = "rec_hdr"
            /\ err' = "none"
            /\ UNCHANGED <<i, rgb, bytes_to_recover>>
    /\ UNCHANGED <<num_lsb, input_image_disk, input_file_disk, steg_image_disk,
                   image, input_file>>

\* Lines 161-172: one pass of the header loop; the row wrap tests x > width.
RecoverHeaderPixel ==
    /\ pc = "rec_hdr"
    /\ k < pixels_used_for_filesize
    /\ IF steg_image = NoImage
       THEN /\ Return("NameError")
            /\ UNCHANGED <<buffer, buffer_length, coords>>
       ELSE IF ~InImage(steg_image, x, y)
       THEN \* getpixel: image index out of range
            /\ coords' = Append(coords, <<x, y>>)
            /\ Return("IndexError")
            /\ UNCHANGED <<buffer, buffer_length>>
       ELSE LET got == AddChannels(buffer, buffer_length, GetPixel(steg_image, x, y), 0)
            IN  /\ coords' = Append(coords, <<x, y>>)
                /\ buffer' = got.buffer
                /\ buffer_length' = got.buffer_length
                /\ IF x + 1 > steg_image.size[1]
                   THEN x' = 0 /\ y' = y + 1
                   ELSE x' = x + 1 /\ y' = y
                /\ k' = k + 1
                /\ UNCHANGED <<pc, i, rgb, pixels_used_for_filesize,
                               bytes_to_recover, err>>
    /\ UNCHANGED <<num_lsb, disk, image, input_file, steg_image, output_file,
                   history, hide_ghost>>

\* Lines 175-176: the size of the file is taken from the buffer.
RecoverReadSize ==
    /\ pc = "rec_hdr"
    /\ k = pixels_used_for_filesize
    /\ LET pop == read_bits_from_buffer(buffer, buffer_length,
                                        bits_in_max_filesize(image, steg_image))
       IN  /\ bytes_to_recover' = pop.bits
           /\ buffer' = pop.buffer
           /\ buffer_length' = pop.buffer_length
    /\ pc' = "rec_bytes"
    /\ UNCHANGED <<num_lsb, disk, image, input_file, steg_image, output_file,
                   x, y, i, rgb, k, pixels_used_for_filesize, err, history,
                   hide_ghost, coords>>

\* Lines 178-189: the next pixel is read; the row wrap tests x >= width.
RecoverBytePixel ==
    /\ pc = "rec_bytes"
    /\ bytes_to_recover > 0
    /\ coords' = Append(coords, <<x, y>>)
    /\ IF ~InImage(steg_image, x, y)
       THEN \* getpixel: image index out of range
            /\ Return("IndexError")
            /\ UNCHANGED <<buffer, buffer_length>>
       ELSE LET got == AddChannels(buffer, buffer_length, GetPixel(steg_image, x, y), 0)
            IN  /\ buffer' = got.buffer
                /\ buffer_length' = got.buffer_length
                /\ IF x + 1 >= steg_image.size[1]
                   THEN x' = 0 /\ y' = y + 1
                   ELSE x' = x + 1 /\ y' = y
                /\ pc' = "rec_drain"
                /\ UNCHANGED <<i, rgb, k, pixels_used_for_filesize,
                               bytes_to_recover, err>>
    /\ UNCHANGED <<num_lsb, disk, image, input_file, steg_image, output_file,
                   history, hide_ghost>>

\* Lines 191-196: one pass of the inner while, or its exit.  The byte written
\* stays pending in output_file; the file on disk is not touched.
RecoverDrain ==
    /\ pc = "rec_drain"
    /\ IF buffer_length >= 8 /\ bytes_to_recover > 0
       THEN LET pop == read_bits_from_buffer(buffer, buffer_length, 8)
            IN  /\ buffer' = pop.buffer
                /\ buffer_length' = pop.buffer_length
                /\ IF output_file.bound /\ output_file.open
                   THEN /\ output_file' = [output_file EXCEPT
                                             !.pending = Append(@, pop.bits)]
                        /\ bytes_to_recover' = bytes_to_recover - 1
                        /\ UNCHANGED <<pc, x, y, i, rgb, k,
                                       pixels_used_for_filesize, err>>
                   ELSE \* write on a closed file (or an unbound name)
                        /\ Return(IF output_file.bound THEN "ValueError"
                                  ELSE "NameError")
                        /\ UNCHANGED output_file
       ELSE /\ pc' = "rec_bytes"
            /\ UNCHANGED <<buffer, buffer_length, output_file, x, y, i, rgb,
                           k, pixels_used_for_filesize, bytes_to_recover, err>>
    /\ UNCHANGED <<num_lsb, disk, image, input_file, steg_image, history,
                   hide_ghost, coords>>

\* Lines 178, 198: nothing is left to recover; output_file.close() flushes the
\* pending bytes into the file (closing a closed file does nothing).
RecoverFinish ==
    /\ pc = "rec_bytes"
    /\ bytes_to_recover = 0
    /\ IF output_file.bound
       THEN /\ output_file' = [bound |-> TRUE, open |-> FALSE, pending |-> <<>>]
            /\ output_file_disk' = IF output_file.open
                                   THEN Flush(output_file.pending,
                                              output_file_disk)
                                   ELSE output_file_disk
            /\ Return("none")
       ELSE /\ UNCHANGED <<output_file, output_file_disk>>
            /\ Return("NameError")
    /\ UNCHANGED <<num_lsb, input_image_disk, input_file_disk, steg_image_disk,
                   image, input_file, steg_image, buffer, buffer_length,
                   history, hide_ghost, coords>>

\* ------------------------------------------------------------ specification
Next ==
    \/ RemoveInputImage
    \/ RemoveInputFile
    \/ RemoveStegImage
    \/ HideStart
    \/ HideNameError
    \/ HideGetPixel
    \/ HideChannel
    \/ HidePutPixel
    \/ HideSave
    \/ Analysis
    \/ RecoverStart
    \/ RecoverHeaderPixel
    \/ RecoverReadSize
    \/ RecoverBytePixel
    \/ RecoverDrain
    \/ RecoverFinish

Spec == Init /\ [][Next]_vars

\* ------------------------------------------------- vocabulary of the claims
HidePcs == {"hide_while", "hide_chan", "hide_put"}
RecoverPcs == {"rec_hdr", "rec_bytes", "rec_drain"}

\* Of a call c (a value of snap): the capacity of the image it works on, the
\* length of the stream header + payload, and whether that stream fits.
Capacity(c) == 3 * c.img.size[1] * c.img.size[2] * num_lsb
StreamBits(c) == c.hb + 8 * Len(c.payload)
Fits(c) == StreamBits(c) <= Capacity(c)

\* Bit j of the stream S = L + payload * 2^header_bits of a hide call c.
StreamBit(c, j) ==
    IF j < c.hb THEN (Len(c.payload) \div Pow2(j)) % 2
    ELSE (c.payload[((j - c.hb) \div 8) + 1] \div Pow2((j - c.hb) % 8)) % 2

\* The bit of image img in which bit j of a stream belongs.
ChannelBit(img, j) == (img.px[(j \div num_lsb) + 1] \div Pow2(j % num_lsb)) % 2

\* The n-th pixel (from 0) of the row-major walk of img.
RowMajor(img, n) == <<n % img.size[1], n \div img.size[1]>>

\* The last call was a hide_data that found both its files.
HideOfPresentFiles == snap.op = "hide" /\ ~snap.missing

\* The last call is a recover_data of the image that the call before it, a
\* hide_data with both files present and a payload that fits, has saved.
RecoverAfterFittingHide ==
    /\ snap.op = "recover" /\ ~snap.missing
    /\ prev.call.op = "hide" /\ ~prev.call.missing
    /\ Fits(prev.call)

\* ------------------------------------------------------------------ claims
\* C1 (as claimed): hide_data of a payload that fits followed by
\* recover_data ends without error with exactly the payload in the output.
C1_RoundTrip ==
    (pc = "idle" /\ RecoverAfterFittingHide) =>
        /\ prev.err = "none"
        /\ err = "none"
        /\ output_file_disk = prev.call.payload

\* C2 (as claimed): a hide_data whose stream exceeds the capacity ends with a
\* capacity error, the image untouched and nothing saved.
C2_CapacityError ==
    (pc = "idle" /\ HideOfPresentFiles /\ ~Fits(snap)) =>
        /\ err = "CapacityExceededError"
        /\ image = snap.img
        /\ ~saved

\* C3 (as claimed): a hide_data or recover_data that finds one of its input
\* files absent aborts: it changes no pixel, saves no image, writes no
\* output and ends with an error.
C3_MissingInputAborts ==
    (snap.op \in {"hide", "recover"} /\ snap.missing) =>
        /\ image = snap.img
        /\ ~saved
        /\ output_file_disk = snap.out0
        /\ (pc = "idle" => err # "none")

\* C4 (as claimed): while hide_data or recover_data runs, the buffer is the
\* exhausted sentinel or holds a value below 2^buffer_length, with
\* buffer_length >= 0.
C4_BufferInvariant ==
    (pc # "idle") =>
        \/ (buffer = <<>> /\ buffer_length = -1)
        \/ (buffer_length >= 0 /\ Len(buffer) <= buffer_length)

\* C5: once read_byte_to_buffer has met end of file in a hide_data run, the
\* buffer is and stays (0, -1), no channel is modified any more (the channels
\* of the current pixel from the one that met end of file on, and all other
\* pixels, keep their values) and the pixel loop ends at its next test.
C5_ExhaustionPropagation ==
    /\ []((pc \in HidePcs /\ eof_seen) => (buffer = <<>> /\ buffer_length = -1))
    /\ [][(pc \in HidePcs /\ eof_seen) =>
            /\ buffer' = <<>> /\ buffer_length' = -1
            /\ (pc = "hide_chan" => rgb' = rgb /\ image' = image)
            /\ (pc = "hide_put" =>
                  \A c \in 1..Len(image.px) :
                      image'.px[c] # image.px[c] =>
                          \E j \in 0..(eof_i - 1) : c = ChannelIndex(image, x, y, j))
            /\ (pc = "hide_while" => pc' = "idle" /\ image' = image)]_vars

C5_Witness ==
    /\ pc = "hide_while" /\ eof_seen /\ eof_i = 0
    /\ y < image.size[2]
    /\ image # snap.img

\* C6: max_bits_to_hide is the number of channels of the image it consults
\* times num_lsb, and bits_in_max_filesize is the smallest k with
\* 2^k > max_bits_to_hide (16 for 100x100 with num_lsb = 2, 4 for 2x2 with
\* num_lsb = 1).
Consulted == IF image # NoImage THEN image ELSE steg_image
SizeOnly(w, h) == [size |-> <<w, h>>, px |-> <<>>]

C6_CapacityAndHeaderWidth ==
    /\ Consulted # NoImage =>
          LET cap == max_bits_to_hide(image, steg_image)
              hb  == bits_in_max_filesize(image, steg_image)
          IN  /\ cap = Len(Consulted.px) * num_lsb
              /\ Pow2(hb) > cap
              /\ \A j \in 0..(hb - 1) : Pow2(j) <= cap
    /\ num_lsb = 2 => bits_in_max_filesize(SizeOnly(100, 100), NoImage) = 16
    /\ num_lsb = 1 => bits_in_max_filesize(SizeOnly(2, 2), NoImage) = 4
    /\ num_lsb = 1 => bits_in_max_filesize(NoImage, SizeOnly(2, 2)) = 4

C6_Witness ==
    /\ pc = "hide_while"
    /\ num_lsb = 1 /\ image.size = <<2, 2>>
    /\ buffer_length = 4

\* C7 (as claimed): recover_data takes the header width and the number of
\* header pixels from the steganographed image it decodes.
C7_HeaderWidthFromStegImage ==
    (pc \in RecoverPcs /\ steg_image # NoImage) =>
        LET own == BitLength(3 * steg_image.size[1] * steg_image.size[2] * num_lsb)
        IN  /\ bits_in_max_filesize(image, steg_image) = own
            /\ pixels_used_for_filesize = CeilDiv(own, 3 * num_lsb)

\* C8 (as claimed): decoding an image that hide_data made from a payload that
\* fits, recover_data asks only for pixels inside the image, in row-major
\* order, each once.
C8_DecoderPixelWalk ==
    RecoverAfterFittingHide =>
        \A n \in 1..Len(coords) :
            /\ InImage(steg_image, coords[n][1], coords[n][2])
            /\ coords[n] = RowMajor(steg_image, n - 1)

\* C9 (as claimed): after a hide_data of a payload that fits, every bit of the
\* stream header + payload is in its place in the image.
C9_CompleteEmbedding ==
    (pc = "idle" /\ HideOfPresentFiles /\ err = "none" /\ Fits(snap)) =>
        \A j \in 0..(StreamBits(snap) - 1) : ChannelBit(image, j) = StreamBit(snap, j)

\* C10: hide_data keeps the upper 8 - num_lsb bits of every channel, keeps
\* every channel at or after position ceil((header_bits + 8*L) / num_lsb)
\* whole, and keeps the size of the image; this holds all through the run,
\* also of the channels of the pixel being worked on.
C10_FrameOfHide ==
    (snap.op = "hide" /\ snap.img # NoImage) =>
        /\ image.size = snap.img.size
        /\ Len(image.px) = Len(snap.img.px)
        /\ \A c \in 1..Len(image.px) :
              /\ image.px[c] \div Pow2(num_lsb) = snap.img.px[c] \div Pow2(num_lsb)
              /\ (c - 1 >= CeilDiv(StreamBits(snap), num_lsb)) =>
                    image.px[c] = snap.img.px[c]
        /\ pc \in {"hide_chan", "hide_put"} =>
              \A j \in 0..2 :
                  LET c == ChannelIndex(image, x, y, j)
                  IN  /\ rgb[j] \div Pow2(num_lsb) = snap.img.px[c] \div Pow2(num_lsb)
                      /\ (c - 1 >= CeilDiv(StreamBits(snap), num_lsb)) =>
                            rgb[j] = snap.img.px[c]

C10_Witness ==
    /\ pc = "idle" /\ snap.op = "hide" /\ err = "none" /\ saved
    /\ num_lsb < 8
    /\ CeilDiv(StreamBits(snap), num_lsb) < Len(image.px)
    /\ \E c \in 1..Len(image.px) : image.px[c] # snap.img.px[c]

====
